---- MODULE Spec2Model ----
(***************************************************************************)
(* Batch sentiment-scoring pipeline of bloomberg-news-scraper.             *)
(*                                                                         *)
(* Text is a sequence of one-character strings.  A probability is an       *)
(* integer number of binary fractions 1/Unit, which float32 and float64    *)
(* hold exactly, so that the differences, weighted sums and sums of the    *)
(* code are exact.  A float is a record [nan, n, d]: not-a-number, or the  *)
(* quotient n/d of such fractions in lowest terms; d > 1 only for a mean,  *)
(* where the record stands for the float64 nearest to the quotient.        *)
(* The External Scorer (tokenizer + model + softmax) is the environment:   *)
(* each call returns a probability vector, returns the all-NaN vector      *)
(* (softmax of non-finite logits), raises, or never returns.               *)
(*                                                                         *)
(* The URL side (article fetch with retry, URL batch, URL scraper, sitemap *)
(* scan, title merge) keeps the arguments and local variables of the       *)
(* function being run in the record `locals`; every HTTP request is the    *)
(* environment's choice of an outcome.                                     *)
(***************************************************************************)
EXTENDS Integers, Sequences, FiniteSets, TLC

\* ------------------------------------------------------------------ bounds
MaxLen == 5
MaxRows == 6

\* ------------------------------------------------------- program constants
Unit == 1024
TestModeRows == 5
SampleRows == 5

\* ------------------------------------------------------------------- text
Chars == {"a", " ", "|"}
Whitespace == {" ", "\t"}
Delimiter == "|"

Texts == UNION {[1..n -> Chars] : n \in 0..MaxLen}

\* str.strip(): leading whitespace removed
RECURSIVE LStrip(_)
LStrip(s) ==
    IF s = <<>> THEN <<>>
    ELSE IF Head(s) \in Whitespace THEN LStrip(Tail(s)) ELSE s

\* str.strip(): trailing whitespace removed
RECURSIVE RStrip(_)
RStrip(s) ==
    IF s = <<>> THEN <<>>
    ELSE IF s[Len(s)] \in Whitespace THEN RStrip(SubSeq(s, 1, Len(s) - 1)) ELSE s

Strip(s) == RStrip(LStrip(s))

\* re.sub(r'\s+', ' ', text): every maximal whitespace run becomes one space
RECURSIVE CollapseWhitespace(_)
CollapseWhitespace(s) ==
    IF s = <<>> THEN <<>>
    ELSE IF Head(s) \in Whitespace
         THEN <<" ">> \o CollapseWhitespace(LStrip(s))
         ELSE <<Head(s)>> \o CollapseWhitespace(Tail(s))

\* str.split('|'): the pieces between delimiters, empty pieces included
RECURSIVE SplitFrom(_, _, _)
SplitFrom(s, k, cur) ==
    IF k > Len(s) THEN <<cur>>
    ELSE IF s[k] = Delimiter
         THEN <<cur>> \o SplitFrom(s, k + 1, <<>>)
         ELSE SplitFrom(s, k + 1, Append(cur, s[k]))

Split(s) == SplitFrom(s, 1, <<>>)

RECURSIVE NonEmpty(_)

\* NonEmpty that builds the list back to front
NonEmptyReversed(seq) ==
    IF seq = <<>> THEN <<>>
    ELSE IF Head(seq) = <<>> THEN NonEmpty(Tail(seq))
         ELSE NonEmpty(Tail(seq)) \o <<Head(seq)>>

\* [x for x in seq if x]: the non-empty strings of a list, in order
NonEmpty(seq) ==
    IF seq = <<>> THEN <<>>
    ELSE IF Head(seq) = <<>> THEN NonEmpty(Tail(seq))
         ELSE <<Head(seq)>> \o NonEmpty(Tail(seq))

\* ------------------------------------------------------------ cell values
\* a DataFrame cell of the news_titles column: missing (NaN), a number (a
\* column read_csv typed as numeric) or a string
NaNCell == [t |-> "nan", s |-> <<>>]
NumCell == [t |-> "num", s |-> <<>>]
StrCell(s) == [t |-> "str", s |-> s]

\* pd.isna(x)
IsNa(cell) == cell.t = "nan"

\* ----------------------------------------------------------------- floats
RECURSIVE Gcd(_, _)
Gcd(a, b) == IF b = 0 THEN a ELSE Gcd(b, a % b)

Abs(x) == IF x < 0 THEN -x ELSE x

NaNFloat == [nan |-> TRUE, n |-> 0, d |-> 1]

\* the float n/d (d > 0), in lowest terms
Frac(n, d) ==
    LET g == Gcd(Abs(n), d)
    IN  [nan |-> FALSE, n |-> n \div g, d |-> d \div g]

Zero == Frac(0, 1)

AddF(x, y) ==
    IF x.nan \/ y.nan THEN NaNFloat
    ELSE Frac(x.n * y.d + y.n * x.d, x.d * y.d)

\* DivF by one more than the number of scores
DivFOffByOne(x, k) == IF x.nan THEN NaNFloat ELSE Frac(x.n, x.d * (k + 1))

DivF(x, k) == IF x.nan THEN NaNFloat ELSE Frac(x.n, x.d * k)

\* -x
NegF(x) == IF x.nan THEN NaNFloat ELSE [x EXCEPT !.n = -x.n]

\* the literal 0.1: the float64 next above 1/10.  No multiple of 1/(2*Unit)
\* lies between 1/10 and that float, so a score compares with the literal
\* as it compares with 1/10
Threshold == Frac(Unit, 10)

\* GtF with the boundary included (x >= t)
GtFInclusive(x, t) == ~x.nan /\ x.n * t.d >= t.n * x.d

\* x > t and x < t for floats x and t (false for NaN, as in IEEE)
GtF(x, t) == ~x.nan /\ x.n * t.d > t.n * x.d
LtF(x, t) == ~x.nan /\ x.n * t.d < t.n * x.d

\* sum(scores), starting from the integer 0
RECURSIVE SumF(_)
SumF(scores) ==
    IF scores = <<>> THEN Zero ELSE AddF(SumF(SubSeq(scores, 1, Len(scores) - 1)), scores[Len(scores)])

\* sum(1 for s in scores if s > t)
RECURSIVE CountGt(_, _)
CountGt(scores, t) ==
    IF scores = <<>> THEN 0
    ELSE (IF GtF(Head(scores), t) THEN 1 ELSE 0) + CountGt(Tail(scores), t)

\* sum(1 for s in scores if s < t)
RECURSIVE CountLt(_, _)
CountLt(scores, t) ==
    IF scores = <<>> THEN 0
    ELSE (IF LtF(Head(scores), t) THEN 1 ELSE 0) + CountLt(Tail(scores), t)

\* ------------------------------------------------------- External Scorer
\* what one call of tokenizer + model + softmax can do: return the vector
\* prob (multiples of 1/Unit summing to Unit), return the all-NaN vector, raise, or
\* never return
Prob(p) == [kind |-> "prob", p |-> p]
NaNProb == [kind |-> "nan", p |-> <<>>]
Raises == [kind |-> "raise", p |-> <<>>]
Hangs == [kind |-> "hang", p |-> <<>>]

\* koheiduck/bert-japanese-finetuned-sentiment: [neutral, negative, positive]
Prob3 ==
    { <<102, 102, 820>>, <<102, 820, 102>>, <<338, 348, 338>>,
      <<0, 461, 563>>, <<0, 563, 461>>, <<1, 460, 563>>, <<1, 563, 460>>,
      <<0, 0, 1024>>, <<0, 1024, 0>> }

\* nlptown/bert-base-multilingual-uncased-sentiment: 1 star .. 5 stars
Prob5 ==
    { <<1024, 0, 0, 0, 0>>, <<0, 0, 0, 0, 1024>>, <<0, 0, 820, 204, 0>>,
      <<0, 204, 820, 0, 0>>, <<0, 0, 819, 205, 0>>, <<0, 205, 819, 0, 0>> }

\* the scoring functions of the repository
ThreeClassFns == {"base", "correct", "bert_main", "bert_test"}
ScorerFns == ThreeClassFns \cup {"fixed"}

ProbsOf(fn) == IF fn \in ThreeClassFns THEN Prob3 ELSE Prob5

Outcomes(fn) == {Prob(p) : p \in ProbsOf(fn)} \cup {NaNProb, Raises, Hangs}

\* ------------------------------------------------------- Sentiment Scorer
\* SkipsScorer without the text.strip() test
SkipsScorerEmptyOnly(fn, text) == fn # "bert_main" /\ text = <<>>

\* `if not text or text.strip() == "": return 0.0` (absent in BERT_main)
HasGuard(fn) == fn # "bert_main"

SkipsScorer(fn, text) == HasGuard(fn) /\ (text = <<>> \/ Strip(text) = <<>>)

\* `except Exception` around tokenizer and model (absent in BERT_main)
CatchesErrors(fn) == fn # "bert_main"

\* ScoreOnError returning -1.0
ScoreOnErrorNegative(fn) == Frac(-Unit, 1)

\* the value returned by the except branch
ScoreOnError(fn) == Zero

\* SignedScore on a scale twice as wide
SignedScoreDoubled(fn, p) ==
    CASE fn \in {"base", "correct", "bert_main"} -> Frac(2 * (p[3] - p[2]), 1)
      [] fn = "bert_test" -> Frac(2 * (p[2] - p[1]), 1)
      [] fn = "fixed" -> Frac(-2 * p[1] - p[2] + p[4] + 2 * p[5], 1)

\* the signed score computed from the vector prob (0-based in the source)
SignedScore(fn, p) ==
    CASE fn \in {"base", "correct", "bert_main"} -> Frac(p[3] - p[2], 1)
      [] fn = "bert_test" -> Frac(p[2] - p[1], 1)
      [] fn = "fixed" -> Frac(-2 * p[1] - p[2] + p[4] + 2 * p[5], 2)

\* one call of the scoring function on text, the External Scorer doing o
GetSentimentScore(fn, text, o) ==
    IF SkipsScorer(fn, text)
    THEN [called |-> FALSE, raised |-> FALSE, score |-> Zero]
    ELSE CASE o.kind = "raise" ->
                [called |-> TRUE, raised |-> ~CatchesErrors(fn), score |-> ScoreOnError(fn)]
           [] o.kind = "nan" ->
                [called |-> TRUE, raised |-> FALSE, score |-> NaNFloat]
           [] OTHER ->
                [called |-> TRUE, raised |-> FALSE, score |-> SignedScore(fn, o.p)]

\* ------------------------------------------------------- Batch Aggregator
Result(avg, pos, neg, neu, total) ==
    [avg_sentiment_score |-> avg, positive_count |-> pos, negative_count |-> neg,
     neutral_count |-> neu, total_titles |-> total]

\* ZeroResult with the mean of an empty list as the average
ZeroResultNaN == Result(NaNFloat, 0, 0, 0, 0)

ZeroResult == Result(Zero, 0, 0, 0, 0)

\* SentimentAnalyzer.clean_text
CleanText(cell) ==
    IF IsNa(cell) \/ (cell.t = "str" /\ cell.s = <<>>) THEN <<>>
    ELSE Strip(CollapseWhitespace(cell.s))

RECURSIVE MapClean(_)
MapClean(pieces) ==
    IF pieces = <<>> THEN <<>>
    ELSE <<CleanText(StrCell(Head(pieces)))>> \o MapClean(Tail(pieces))

RECURSIVE MapStrip(_)
MapStrip(pieces) ==
    IF pieces = <<>> THEN <<>>
    ELSE <<Strip(Head(pieces))>> \o MapStrip(Tail(pieces))

\* SplitTitles without the `if title` filter
SplitTitlesUnfiltered(variant, s) ==
    IF variant = "base" THEN MapClean(Split(s)) ELSE MapStrip(Split(s))

\* the item list `titles` of a string bundle
SplitTitles(variant, s) ==
    IF variant = "base" THEN NonEmpty(MapClean(Split(s)))
    ELSE NonEmpty(MapStrip(Split(s)))

\* the early return of analyze_news_titles on a missing or empty bundle
IsEmptyBundle(variant, cell) ==
    IF variant = "base" THEN IsNa(cell) \/ (cell.t = "str" /\ cell.s = <<>>)
    ELSE IsNa(cell) \/ (cell.t = "str" /\ Strip(cell.s) = <<>>)

\* the bundle makes analyze_news_titles raise AttributeError (.split/.strip
\* of a number)
BundleRaises(variant, cell) == ~IsNa(cell) /\ cell.t = "num"

\* the tallies of the scores
PositiveCount(scores) == CountGt(scores, Threshold)
NegativeCount(scores) == CountLt(scores, NegF(Threshold))

\* NeutralCount that forgets the negative items
NeutralCountNoNegative(scores) == Len(scores) - PositiveCount(scores)

\* len(scores) - positive_count - negative_count
NeutralCount(scores) == Len(scores) - PositiveCount(scores) - NegativeCount(scores)

\* Classify with the thresholds 0.125 and -0.125
ClassifyEighth(score) ==
    IF GtF(score, Frac(Unit, 8)) THEN "positive"
    ELSE IF LtF(score, Frac(-Unit, 8)) THEN "negative"
    ELSE "neutral"

\* FixedSentimentAnalyzer: the if / elif / else on one score
Classify(score) ==
    IF GtF(score, Threshold) THEN "positive"
    ELSE IF LtF(score, NegF(Threshold)) THEN "negative"
    ELSE "neutral"

\* FixedSentimentAnalyzer: the counter a class has after the loop
RECURSIVE CountClass(_, _)
CountClass(scores, c) ==
    IF scores = <<>> THEN 0
    ELSE (IF Classify(Head(scores)) = c THEN 1 ELSE 0) + CountClass(Tail(scores), c)

\* the statistics of a non-empty item list
Aggregate(variant, titles, scores) ==
    IF variant = "fixed"
    THEN Result(DivF(SumF(scores), Len(scores)), CountClass(scores, "positive"),
                CountClass(scores, "negative"), CountClass(scores, "neutral"),
                Len(titles))
    ELSE Result(DivF(SumF(scores), Len(scores)), PositiveCount(scores),
                NegativeCount(scores), NeutralCount(scores), Len(titles))

\* ---------------------------------------------------------- Row Processor
VARIABLES
    variant,            \* which analyzer runs: base (sentiment_analyzer.py),
                        \* correct, fixed; under ScorerSpec the scoring function
    test_mode,          \* process_csv(test_mode=...) of CorrectSentimentAnalyzer
    readable,           \* pd.read_csv(input) succeeds
    input,              \* the rows of the input file
    pc,                 \* where the run is
    df,                 \* the DataFrame being processed
    i,                  \* the row being processed (1-based)
    titles,             \* the item list of the current analyze_news_titles call
    individual_scores,  \* the scores of that call so far
    calls,              \* the External Scorer calls of that call so far
    sentiment_results,  \* base: the list of per-row results
    written,            \* to_csv has run
    output,             \* the rows of the output file
    locals              \* the arguments and local variables of the URL-side
                        \* function being run (article fetch, URL discovery,
                        \* title merge); empty in a sentiment run

vars == <<variant, test_mode, readable, input, pc, df, i, titles,
          individual_scores, calls, sentiment_results, written, output, locals>>

\* no URL-side function is running
NoLocals == <<>>

Variants == {"base", "correct", "fixed"}

\* df.head(n)
HeadRows(rows, n) == SubSeq(rows, 1, IF Len(rows) < n THEN Len(rows) ELSE n)

\* df[c] = 0 and df.at[i, c] = value for the five result fields c: a column
\* the input already had under that name is overwritten
WithResult(row, res) == res @@ row

\* the label a column of sentiment_df is written under when df already has
\* a column of that name: pd.concat keeps both columns, the second one is
\* told apart here by the suffix read_csv gives it
SecondLabel(c) ==
    CASE c = "avg_sentiment_score" -> "avg_sentiment_score.1"
      [] c = "positive_count" -> "positive_count.1"
      [] c = "negative_count" -> "negative_count.1"
      [] c = "neutral_count" -> "neutral_count.1"
      [] c = "total_titles" -> "total_titles.1"

\* one row of pd.concat([df, sentiment_df], axis=1): every column of df is
\* kept as it is and the columns of sentiment_df are added after them
ConcatRow(row, res) ==
    IF DOMAIN row \cap DOMAIN res = {} THEN WithResult(row, res)
    ELSE LET Label(c) == IF c \in DOMAIN row THEN SecondLabel(c) ELSE c
         IN  [n \in DOMAIN row \cup {Label(c) : c \in DOMAIN res} |->
                 IF n \in DOMAIN row THEN row[n]
                 ELSE res[CHOOSE c \in DOMAIN res : Label(c) = n]]

\* Concat that joins the results in reverse order
ConcatReversed(rows, results) ==
    [k \in 1..Len(rows) |->
        IF k <= Len(results) THEN results[Len(results) + 1 - k] @@ rows[k] ELSE rows[k]]

\* pd.concat([df, sentiment_df], axis=1): joined on the row index; an empty
\* sentiment_df has no columns
Concat(rows, results) ==
    [k \in 1..Len(rows) |-> IF k <= Len(results) THEN ConcatRow(rows[k], results[k]) ELSE rows[k]]

\* the DataFrame the loop runs over
InitialDf(v, tm, rows) ==
    LET kept == IF v = "correct" /\ tm THEN HeadRows(rows, TestModeRows) ELSE rows
    IN  IF v = "base" THEN kept
        ELSE [k \in 1..Len(kept) |-> WithResult(kept[k], ZeroResult)]

\* the row reads of the loop body raise KeyError
RowKeyError(v, row) ==
    IF v = "base" THEN "date" \notin DOMAIN row ELSE "news_titles" \notin DOMAIN row

\* row.get('news_titles', '') / row['news_titles']
BundleOf(row) ==
    IF "news_titles" \in DOMAIN row THEN row["news_titles"] ELSE StrCell(<<>>)

\* StoreResult that starts the result list again at every row
StoreResultOverwrite(v, st, res) ==
    IF v = "base"
    THEN [st EXCEPT !.sentiment_results = <<res>>, !.i = @ + 1]
    ELSE [st EXCEPT !.df[st.i] = WithResult(@, res), !.i = @ + 1]

\* the result of a row is stored: appended to sentiment_results, or df.at[i, ...]
StoreResult(v, st, res) ==
    IF v = "base"
    THEN [st EXCEPT !.sentiment_results = Append(@, res), !.i = @ + 1]
    ELSE [st EXCEPT !.df[st.i] = WithResult(@, res), !.i = @ + 1]

\* base: the statistics and the preview printed after to_csv raise
SummaryRaises(rows) ==
    \/ rows = <<>>
    \/ \E k \in 1..Len(HeadRows(rows, SampleRows)) :
          \/ "date" \notin DOMAIN rows[k]
          \/ "news_titles" \notin DOMAIN rows[k]
          \/ IsNa(rows[k]["news_titles"])

\* after the loop: the output is written and the statistics are printed
Finish(v, st) ==
    LET result_df == IF v = "base" THEN Concat(st.df, st.sentiment_results) ELSE st.df
    IN  [st EXCEPT !.written = TRUE, !.output = result_df,
                   !.pc = IF v = "base" /\ SummaryRaises(result_df) THEN "crashed" ELSE "done"]

\* the run from the top of the loop (Advance) or from the next item of the
\* current row (NextItem) up to the next External Scorer call or the end
RECURSIVE Advance(_, _)
RECURSIVE NextItem(_, _)
Advance(v, st) ==
    IF st.i > Len(st.df) THEN Finish(v, st)
    ELSE IF RowKeyError(v, st.df[st.i]) THEN [st EXCEPT !.pc = "row_error"]
    ELSE LET cell == BundleOf(st.df[st.i])
             fresh == [st EXCEPT !.titles = <<>>, !.individual_scores = <<>>, !.calls = <<>>]
         IN  IF IsEmptyBundle(v, cell) THEN Advance(v, StoreResult(v, fresh, ZeroResult))
             ELSE IF BundleRaises(v, cell) THEN [fresh EXCEPT !.pc = "row_error"]
             ELSE IF SplitTitles(v, cell.s) = <<>>
                  THEN Advance(v, StoreResult(v, fresh, ZeroResult))
                  ELSE NextItem(v, [fresh EXCEPT !.titles = SplitTitles(v, cell.s)])

\* NextItem that submits an item again when its call raised
NextItemRetry(v, st) ==
    IF /\ st.calls # <<>>
       /\ Len(st.calls) = Len(st.individual_scores)
       /\ st.calls[Len(st.calls)].o.kind = "raise"
    THEN [st EXCEPT !.individual_scores = SubSeq(@, 1, Len(@) - 1), !.pc = "scoring"]
    ELSE IF Len(st.individual_scores) = Len(st.titles)
    THEN Advance(v, StoreResult(v, st, Aggregate(v, st.titles, st.individual_scores)))
    ELSE IF SkipsScorer(v, st.titles[Len(st.individual_scores) + 1])
         THEN NextItem(v, [st EXCEPT !.individual_scores = Append(@, Zero)])
         ELSE [st EXCEPT !.pc = "scoring"]

\* for title in titles: the items of the current row, one call each
NextItem(v, st) ==
    IF Len(st.individual_scores) = Len(st.titles)
    THEN Advance(v, StoreResult(v, st, Aggregate(v, st.titles, st.individual_scores)))
    ELSE IF SkipsScorer(v, st.titles[Len(st.individual_scores) + 1])
         THEN NextItem(v, [st EXCEPT !.individual_scores = Append(@, Zero)])
         ELSE [st EXCEPT !.pc = "scoring"]

State ==
    [pc |-> pc, df |-> df, i |-> i, titles |-> titles,
     individual_scores |-> individual_scores, calls |-> calls,
     sentiment_results |-> sentiment_results, written |-> written, output |-> output]

Becomes(st) ==
    /\ pc' = st.pc
    /\ df' = st.df
    /\ i' = st.i
    /\ titles' = st.titles
    /\ individual_scores' = st.individual_scores
    /\ calls' = st.calls
    /\ sentiment_results' = st.sentiment_results
    /\ written' = st.written
    /\ output' = st.output
    /\ UNCHANGED <<variant, test_mode, readable, input, locals>>

\* where main ends when read_csv raised: process_csv_with_sentiment prints
\* the error and returns, and main prints its completion lines; process_csv
\* lets the exception reach the except branch of main
AfterReadError(v) == IF v = "base" THEN "done" ELSE "read_error"

\* process_csv_with_sentiment / process_csv up to the first External Scorer call
Start ==
    /\ pc = "start"
    /\ IF readable
       THEN Becomes(Advance(variant,
                [State EXCEPT !.pc = "loop", !.i = 1,
                              !.df = InitialDf(variant, test_mode, input)]))
       ELSE Becomes([State EXCEPT !.pc = AfterReadError(variant)])

\* the External Scorer returns or raises; the run goes on to the next call
ScorerReturns(o) ==
    /\ pc = "scoring"
    /\ o.kind # "hang"
    /\ LET text == titles[Len(individual_scores) + 1]
           r == GetSentimentScore(variant, text, o)
           logged == [State EXCEPT !.calls = Append(@, [text |-> text, o |-> o])]
       IN  IF r.raised
           THEN Becomes([logged EXCEPT !.pc = "row_error"])
           ELSE Becomes(NextItem(variant,
                    [logged EXCEPT !.individual_scores = Append(@, r.score)]))

\* the External Scorer never returns: no timeout bounds the call
ScorerHangs ==
    /\ pc = "scoring"
    /\ LET text == titles[Len(individual_scores) + 1]
       IN  Becomes([State EXCEPT !.pc = "blocked",
                                 !.calls = Append(@, [text |-> text, o |-> Hangs])])

\* ---------------------------------------------------------------- inputs
MakeRows(cells, cols) ==
    IF cols = {"date"} THEN [k \in 1..Len(cells) |-> [date |-> k]]
    ELSE IF cols = {"news_titles"} THEN [k \in 1..Len(cells) |-> [news_titles |-> cells[k]]]
    ELSE [k \in 1..Len(cells) |-> [date |-> k, news_titles |-> cells[k]]]

\* read_csv gives a column one type: numbers (and NaN) or strings (and NaN)
WellTyped(cells) ==
    ~(\E j, k \in 1..Len(cells) : cells[j].t = "num" /\ cells[k].t = "str")

ColumnSets == {{"date", "news_titles"}, {"date"}, {"news_titles"}}

RowCells == {NaNCell, NumCell, StrCell(<<"a">>)}
RowDatasets ==
    {MakeRows(cells, cols) :
        cells \in {c \in UNION {[1..n -> RowCells] : n \in 0..MaxRows} : WellTyped(c)},
        cols \in ColumnSets}

RowOutcomes(fn) ==
    {Raises, Hangs, Prob(IF fn = "fixed" THEN <<0, 0, 0, 0, 1024>> ELSE <<102, 102, 820>>)}

InitWith(rows) ==
    /\ variant \in Variants
    /\ test_mode \in (IF variant = "correct" THEN BOOLEAN ELSE {FALSE})
    /\ readable \in BOOLEAN
    /\ input = rows
    /\ pc = "start"
    /\ df = <<>>
    /\ i = 0
    /\ titles = <<>>
    /\ individual_scores = <<>>
    /\ calls = <<>>
    /\ sentiment_results = <<>>
    /\ written = FALSE
    /\ output = <<>>
    /\ locals = NoLocals

\* a batch run over a dataset of up to MaxRows rows
Init == \E rows \in RowDatasets : InitWith(rows)

\* the value of a total_titles column the input file already has
PreviousTotal == 7

\* datasets that may already have a column named like a result field, as
\* the output file of an earlier run has
ColumnDatasets ==
    {rows \in RowDatasets : rows # <<>> => DOMAIN rows[1] = {"date", "news_titles"}}
      \cup {[k \in 1..Len(rows) |-> [total_titles |-> PreviousTotal] @@ rows[k]] :
               rows \in {r \in RowDatasets :
                            r # <<>> /\ DOMAIN r[1] = {"date", "news_titles"}}}

ColumnInit == \E rows \in ColumnDatasets : InitWith(rows)

Next ==
    \/ Start
    \/ \E o \in RowOutcomes(variant) : ScorerReturns(o)
    \/ ScorerHangs

Spec == Init /\ [][Next]_vars

\* the same run over datasets that may have a result column already
ColumnSpec == ColumnInit /\ [][Next]_vars

\* a batch run over one row whose bundle is any text of up to MaxLen characters
BundleCells == {NaNCell, NumCell} \cup {StrCell(s) : s \in Texts \ {<<>>}}
BundleDatasets ==
    {MakeRows(<<cell>>, cols) : cell \in BundleCells, cols \in {{"date", "news_titles"}, {"date"}}}

BundleInit == (\E rows \in BundleDatasets : InitWith(rows)) /\ readable /\ ~test_mode

BundleNext ==
    \/ Start
    \/ \E o \in Outcomes(variant) : ScorerReturns(o)
    \/ ScorerHangs

BundleSpec == BundleInit /\ [][BundleNext]_vars

\* one direct call of a scoring function on any text
CallScorer(o) ==
    /\ pc = "call"
    /\ LET text == titles[1]
           logged == [State EXCEPT !.calls = Append(@, [text |-> text, o |-> o])]
       IN  IF SkipsScorer(variant, text)
           THEN Becomes([State EXCEPT !.pc = "returned", !.individual_scores = <<Zero>>])
           ELSE IF o.kind = "hang"
           THEN Becomes([logged EXCEPT !.pc = "blocked"])
           ELSE IF GetSentimentScore(variant, text, o).raised
           THEN Becomes([logged EXCEPT !.pc = "raised"])
           ELSE Becomes([logged EXCEPT !.pc = "returned",
                    !.individual_scores = <<GetSentimentScore(variant, text, o).score>>])

ScorerInit ==
    /\ variant \in ScorerFns
    /\ test_mode = FALSE
    /\ readable = TRUE
    /\ input = <<>>
    /\ pc = "call"
    /\ df = <<>>
    /\ i = 0
    /\ titles \in {<<text>> : text \in Texts}
    /\ individual_scores = <<>>
    /\ calls = <<>>
    /\ sentiment_results = <<>>
    /\ written = FALSE
    /\ output = <<>>
    /\ locals = NoLocals

ScorerNext == \E o \in Outcomes(variant) : CallScorer(o)

ScorerSpec == ScorerInit /\ [][ScorerNext]_vars

\* ----------------------------------------------------------------- claims
FiveFields ==
    {"avg_sentiment_score", "positive_count", "negative_count", "neutral_count",
     "total_titles"}

\* the five result fields of a row that has them
ResultOf(row) == [f \in FiveFields |-> row[f]]

\* a row of the DataFrame whose processing raises
RowFails(v, row) == RowKeyError(v, row) \/ BundleRaises(v, BundleOf(row))

\* the items analyze_news_titles scores for a row
ItemsOf(v, row) ==
    IF IsEmptyBundle(v, BundleOf(row)) THEN <<>> ELSE SplitTitles(v, BundleOf(row).s)

RaisedCalls == {k \in 1..Len(calls) : calls[k].o.kind = "raise"}

\* C1: a row whose processing raises does not abort the run; the row gets
\* the zero BundleResult and the rows after it are processed and written.
C1_RowFailureIsolation ==
    /\ pc # "row_error"
    /\ written =>
          /\ Len(output) = Len(df)
          /\ \A k \in 1..Len(df) :
                RowFails(variant, df[k]) => ResultOf(output[k]) = ZeroResult

\* C2: when the External Scorer raises on some items of a bundle, the bundle
\* still gets a result over all its items: the total is the number of items,
\* a failed item scores 0.0 and is counted neutral, the others score
\* positive minus negative.
C2_ItemFailureIsolation ==
    /\ RaisedCalls # {} => pc # "row_error"
    /\ (written /\ titles # <<>>) =>
          /\ Len(individual_scores) = Len(titles)
          /\ Len(calls) = Len(titles)
          /\ output[1]["total_titles"] = Len(titles)
          /\ \A k \in RaisedCalls :
                individual_scores[k] = [nan |-> FALSE, n |-> 0, d |-> 1]
          /\ output[1]["neutral_count"] >= Cardinality(RaisedCalls)
          /\ \A k \in 1..Len(calls) :
                (calls[k].o.kind = "prob" /\ variant # "fixed") =>
                    /\ ~individual_scores[k].nan
                    /\ individual_scores[k].d = 1
                    /\ individual_scores[k].n = calls[k].o.p[3] - calls[k].o.p[2]

C2_Witness ==
    /\ written
    /\ Len(titles) = 3
    /\ RaisedCalls = {2}
    /\ calls[1].o.kind = "prob"
    /\ calls[3].o.kind = "prob"
    /\ output[1]["total_titles"] = 3
    /\ output[1]["neutral_count"] >= 1

\* every BundleResult held by the run
AllResults ==
    {sentiment_results[k] : k \in 1..Len(sentiment_results)}
      \cup {ResultOf(df[k]) : k \in {j \in 1..Len(df) : "total_titles" \in DOMAIN df[j]}}
      \cup {ResultOf(output[k]) : k \in {j \in 1..Len(output) : "total_titles" \in DOMAIN output[j]}}

\* C3: in every BundleResult the three counts are non-negative integers
\* that sum to the total, also when the total is 0.
C3_CountsSumToTotal ==
    \A r \in AllResults :
        /\ r["positive_count"] \in Nat
        /\ r["negative_count"] \in Nat
        /\ r["neutral_count"] \in Nat
        /\ r["total_titles"] \in Nat
        /\ r["positive_count"] + r["negative_count"] + r["neutral_count"] = r["total_titles"]

C3_Witness ==
    /\ written
    /\ Len(output) = 1
    /\ output[1]["total_titles"] = 3
    /\ output[1]["positive_count"] = 1
    /\ output[1]["negative_count"] = 1
    /\ output[1]["neutral_count"] = 1
    /\ RaisedCalls # {}

\* the k-th output row is the k-th input row with the five result fields
\* of its own bundle
RowMatches(k) ==
    /\ DOMAIN output[k] = DOMAIN input[k] \cup FiveFields
    /\ \A c \in DOMAIN input[k] : output[k][c] = input[k][c]
    /\ output[k]["total_titles"] = Len(ItemsOf(variant, input[k]))
    /\ output[k]["positive_count"] + output[k]["negative_count"]
         + output[k]["neutral_count"] = Len(ItemsOf(variant, input[k]))

\* C4 as stated: a run over N input rows writes exactly N rows, the k-th
\* being the k-th input row with its five result fields, test mode included.
C4_Original ==
    written =>
        /\ Len(output) = Len(input)
        /\ \A k \in 1..Len(output) : RowMatches(k)

\* C4 as amended: a run that writes its output writes the first min(N, 5)
\* rows in test mode and all N rows otherwise, the k-th output row being
\* the k-th input row with the five result fields of its own bundle.
C4_RowOrder ==
    written =>
        /\ Len(output) =
              IF variant = "correct" /\ test_mode /\ Len(input) > TestModeRows
              THEN TestModeRows ELSE Len(input)
        /\ \A k \in 1..Len(output) : RowMatches(k)

C4_Witness ==
    /\ written
    /\ test_mode
    /\ Len(input) = TestModeRows + 1
    /\ Len(output) = TestModeRows
    /\ "date" \in DOMAIN input[1]
    /\ output[1]["total_titles"] = 1
    /\ output[2]["total_titles"] = 0
    /\ output[2]["date"] = 2

\* the bundle is missing, empty, or made of delimiters and whitespace only
BlankBundle(cell) ==
    \/ cell.t = "nan"
    \/ cell.t = "str" /\ \A k \in 1..Len(cell.s) : cell.s[k] \in {" ", "|"}

\* C5: a missing, empty or delimiter-and-whitespace-only bundle gets the
\* all-zero BundleResult and the External Scorer is never invoked.
C5_BlankBundleZero ==
    (pc # "start" /\ Len(df) = 1 /\ ~RowKeyError(variant, df[1])
       /\ BlankBundle(BundleOf(df[1]))) =>
        /\ written
        /\ calls = <<>>
        /\ ResultOf(output[1]) = Result([nan |-> FALSE, n |-> 0, d |-> 1], 0, 0, 0, 0)

C5_Witness ==
    /\ written
    /\ Len(df) = 1
    /\ "news_titles" \in DOMAIN df[1]
    /\ df[1]["news_titles"] = StrCell(<<"|", " ", "|">>)
    /\ output[1]["total_titles"] = 0
    /\ calls = <<>>

\* the items of the last bundle whose score is above 0.1, below -0.1, between
Above == {k \in 1..Len(individual_scores) :
            10 * individual_scores[k].n > Unit * individual_scores[k].d}
Below == {k \in 1..Len(individual_scores) :
            10 * individual_scores[k].n < -Unit * individual_scores[k].d}
Between == {k \in 1..Len(individual_scores) :
            /\ 10 * individual_scores[k].n <= Unit * individual_scores[k].d
            /\ 10 * individual_scores[k].n >= -Unit * individual_scores[k].d}

\* C6: an item is counted positive iff its score is above 0.1, negative iff
\* below -0.1, neutral iff within [-0.1, 0.1], the two boundaries included
\* (for scores that are numbers).  No vector of binary fractions gives a
\* score of exactly 0.1, so the two boundary scores are tallied directly.
C6_Thresholds ==
    /\ (written /\ titles # <<>> /\ Len(output) = 1
          /\ \A k \in 1..Len(individual_scores) : ~individual_scores[k].nan) =>
           /\ output[1]["positive_count"] = Cardinality(Above)
           /\ output[1]["negative_count"] = Cardinality(Below)
           /\ output[1]["neutral_count"] = Cardinality(Between)
    /\ written =>
           /\ PositiveCount(<<Threshold, NegF(Threshold)>>) = 0
           /\ NegativeCount(<<Threshold, NegF(Threshold)>>) = 0
           /\ NeutralCount(<<Threshold, NegF(Threshold)>>) = 2
           /\ Classify(Threshold) = "neutral"
           /\ Classify(NegF(Threshold)) = "neutral"

C6_Witness ==
    /\ written
    /\ Len(titles) = 2
    /\ Len(calls) = 2
    /\ individual_scores[1] = Frac(Unit \div 10, 1)
    /\ individual_scores[2] = Frac(Unit \div 10 + 1, 1)
    /\ output[1]["neutral_count"] = 1
    /\ output[1]["positive_count"] = 1

\* C7: a scoring function never raises to its caller: when the External
\* Scorer raises, it returns the score 0.0.
C7_ScorerErrorsContained ==
    /\ pc # "raised"
    /\ (pc = "returned" /\ RaisedCalls # {}) => individual_scores = <<Zero>>

\* the vector returned by the External Scorer sums to 1.0
SumsToUnit(o) ==
    /\ o.kind = "prob"
    /\ (IF Len(o.p) = 3 THEN o.p[1] + o.p[2] + o.p[3]
        ELSE o.p[1] + o.p[2] + o.p[3] + o.p[4] + o.p[5]) = Unit

\* C8: when the vector returned by the External Scorer does not sum to 1.0
\* the scorer returns the score 0.0.
C8_MalformedTripleNeutral ==
    (pc = "returned" /\ calls # <<>> /\ calls[1].o.kind \in {"prob", "nan"}
       /\ ~SumsToUnit(calls[1].o)) =>
        individual_scores = <<Zero>>

\* C9: an External Scorer call that never returns is abandoned by a timeout:
\* the run always has a next step until it ends.
C9_ScorerCallBounded == pc = "blocked" => ENABLED Next

\* C10: on empty or whitespace-only text the scorer returns 0.0 and does
\* not invoke the External Scorer (the scoring methods of the analyzer
\* classes; BERT_main.get_sentiment_score has no such guard).
C10_EmptyTextSkipsScorer ==
    (variant # "bert_main" /\ \A k \in 1..Len(titles[1]) : titles[1][k] = " ") =>
        /\ pc \in {"call", "returned"}
        /\ calls = <<>>
        /\ pc = "returned" => individual_scores = <<[nan |-> FALSE, n |-> 0, d |-> 1]>>

C10_Witness ==
    /\ pc = "returned"
    /\ variant = "base"
    /\ titles = << <<" ", " ">> >>
    /\ calls = <<>>
    /\ individual_scores = <<Zero>>

\* ---------------------------------------------------------------------------
\* C11: for a bundle with n non-empty items the External Scorer is invoked
\* exactly n times, once per item and in item order: the k-th call carries the
\* k-th item, a call is made only when every earlier item has its reading, no
\* item is submitted twice (a failed one included), and when the bundle is
\* finished the number of calls is the number of items.
C11_OneCallPerItemInOrder ==
    /\ Len(calls) <= Len(titles)
    /\ \A k \in 1..Len(calls) : calls[k].text = titles[k]
    /\ \A k \in 1..Len(calls) : calls[k].o.kind = "hang" => k = Len(calls) /\ pc = "blocked"
    /\ Len(calls) = Len(individual_scores) + (IF pc = "blocked" THEN 1 ELSE 0)
    /\ written => Len(calls) = Len(titles)

C11_Witness ==
    /\ written
    /\ Len(titles) = 2
    /\ Len(calls) = 2
    /\ calls[1].text # calls[2].text
    /\ calls[1].o = Raises
    /\ calls[2].o.kind = "prob"

\* ---------------------------------------------------------------------------
\* Text Normalizer and Item Splitter as functions of one text

\* "a" is a word character (\w), " " and "\t" are whitespace (\s), "!" and "|"
\* are punctuation outside the allow-list
TextChars == Chars \cup {"!", "\t"}
WordChars == {"a"}

\* [\w\s\u3040-\u309F\u30A0-\u30FF\u4E00-\u9FAF]: the characters kept
Allowed(c) == c \in WordChars \cup Whitespace

\* re.sub(r'[^\w\s...]', '', text)
RemoveDisallowed(s) == SelectSeq(s, Allowed)

\* re.sub(r'[^\w\s...]', ' ', text)
ReplaceDisallowed(s) == [k \in 1..Len(s) |-> IF Allowed(s[k]) THEN s[k] ELSE " "]

\* CorrectSentimentAnalyzer.clean_text: strip, collapse, remove, strip
CleanTextCorrect(cell) ==
    IF IsNa(cell) \/ cell.s = <<>> THEN <<>>
    ELSE Strip(RemoveDisallowed(CollapseWhitespace(Strip(cell.s))))

\* FixedSentimentAnalyzer.clean_text: strip, replace, collapse, strip
CleanTextFixed(cell) ==
    IF IsNa(cell) \/ cell.s = <<>> THEN <<>>
    ELSE Strip(CollapseWhitespace(ReplaceDisallowed(Strip(cell.s))))

\* clean_text of each analyzer class
CleanTextOf(v, cell) ==
    IF v = "base" THEN CleanText(cell)
    ELSE IF v = "correct" THEN CleanTextCorrect(cell)
    ELSE CleanTextFixed(cell)

TextCells == {NaNCell} \cup {StrCell(s) : s \in UNION {[1..n -> TextChars] : n \in 0..MaxLen}}

\* the text under test is the news_titles cell of the only input row
TextOf == input[1]["news_titles"]

TextInit ==
    /\ variant \in Variants
    /\ test_mode = FALSE
    /\ readable = TRUE
    /\ input \in {<<[news_titles |-> cell]>> : cell \in TextCells}
    /\ pc = "text"
    /\ df = <<>>
    /\ i = 0
    /\ titles = <<>>
    /\ individual_scores = <<>>
    /\ calls = <<>>
    /\ sentiment_results = <<>>
    /\ written = FALSE
    /\ output = <<>>
    /\ locals = NoLocals

\* cleaned = self.clean_text(text)
CleanOne ==
    /\ pc = "text"
    /\ Becomes([State EXCEPT !.pc = "cleaned", !.output = <<CleanTextOf(variant, TextOf)>>])

\* titles = the item list analyze_news_titles builds from a string bundle
SplitOne ==
    /\ pc = "text"
    /\ ~IsEmptyBundle(variant, TextOf)
    /\ Becomes([State EXCEPT !.pc = "split", !.titles = SplitTitles(variant, TextOf.s)])

TextNext == CleanOne \/ SplitOne

TextSpec == TextInit /\ [][TextNext]_vars

\* ---------------------------------------------------------------------------
\* C12: the Item Splitter applies the Text Normalizer to every piece: the item
\* list is the list of normalized pieces, in order, without the pieces whose
\* normalization is empty (a piece made only of punctuation among them).
NormalizedPieces(v, s) ==
    LET pieces == Split(s)
    IN  NonEmpty([k \in 1..Len(pieces) |-> CleanTextOf(v, StrCell(pieces[k]))])

C12_ItemsAreNormalizedPieces ==
    pc = "split" => titles = NormalizedPieces(variant, TextOf.s)

\* ---------------------------------------------------------------------------
\* C13: splitting a bundle on '|' yields its non-blank pieces in input order:
\* there are as many items as pieces that are neither empty nor whitespace
\* only, and the j-th item is the j-th such piece with its surrounding
\* whitespace removed; "a|b||  |c" yields ["a", "b", "c"].
KeptPieces(s) ==
    {k \in 1..Len(Split(s)) : \E j \in 1..Len(Split(s)[k]) : Split(s)[k][j] \notin Whitespace}

ExampleBundle == <<"a", "|", "b", "|", "|", " ", " ", "|", "c">>

C13_ItemsInPieceOrder ==
    /\ \A v \in Variants : SplitTitles(v, ExampleBundle) = << <<"a">>, <<"b">>, <<"c">> >>
    /\ pc = "split" =>
          LET s == TextOf.s
              keep == KeptPieces(s)
          IN  /\ Len(titles) = Cardinality(keep)
              /\ \A k \in keep :
                    titles[Cardinality({m \in keep : m <= k})] =
                        IF variant = "base" THEN Strip(CollapseWhitespace(Split(s)[k]))
                        ELSE Strip(Split(s)[k])

C13_Witness ==
    /\ pc = "split"
    /\ Len(Split(TextOf.s)) = 3
    /\ Split(TextOf.s)[2] = <<" ">>
    /\ Len(titles) = 2
    /\ titles[1] # titles[2]

\* ---------------------------------------------------------------------------
\* C14: the average is the sum of the signed scores divided by the number of
\* items and the counts are the tallies of the three classes; the triples
\* (neg, neu, pos) = (0.1, 0.1, 0.8), (0.8, 0.1, 0.1), (0.34, 0.33, 0.33),
\* taken as the nearest multiples of 1/Unit (102, 102, 820), (820, 102, 102),
\* (348, 338, 338), give the average (718 - 718 - 10) / 3 in units of 1/Unit
\* (the example's (0.7 - 0.7 - 0.01) / 3), one positive, one negative, one neutral
\* and a total of 3.
RECURSIVE TwiceSum(_)
TwiceSum(scores) ==
    IF scores = <<>> THEN 0
    ELSE Head(scores).n * (2 \div Head(scores).d) + TwiceSum(Tail(scores))

ExampleTriples == << <<102, 102, 820>>, <<102, 820, 102>>, <<338, 348, 338>> >>

ExampleRun ==
    /\ variant # "fixed"
    /\ Len(calls) = 3
    /\ \A k \in 1..3 : calls[k].o = Prob(ExampleTriples[k])

C14_AverageAndTallies ==
    (written /\ titles # <<>> /\ Len(output) = 1
       /\ \A k \in 1..Len(individual_scores) : ~individual_scores[k].nan) =>
        LET n == Len(individual_scores)
            avg == output[1]["avg_sentiment_score"]
        IN  /\ ~avg.nan
            /\ avg.n * 2 * n = avg.d * TwiceSum(individual_scores)
            /\ output[1]["total_titles"] = n
            /\ output[1]["positive_count"] + output[1]["negative_count"]
                 + output[1]["neutral_count"] = n
            /\ output[1]["positive_count"] = Cardinality(Above)
            /\ output[1]["negative_count"] = Cardinality(Below)
            /\ ExampleRun =>
                  /\ avg = [nan |-> FALSE, n |-> -10, d |-> 3]
                  /\ output[1]["positive_count"] = 1
                  /\ output[1]["negative_count"] = 1
                  /\ output[1]["neutral_count"] = 1
                  /\ output[1]["total_titles"] = 3

C14_Witness ==
    /\ written
    /\ ExampleRun
    /\ Len(output) = 1
    /\ output[1]["total_titles"] = 3

\* ---------------------------------------------------------------------------
\* C15: for every probability triple with non-negative components summing to
\* 1 the signed score is positive - negative and lies in [-1, 1]; hence the
\* average of every bundle whose items all got such a reading (or the 0.0 of
\* a contained failure) lies in [-1, 1].
ValidTriple(o) ==
    /\ o.kind = "prob"
    /\ Len(o.p) = 3
    /\ \A j \in 1..3 : o.p[j] >= 0
    /\ o.p[1] + o.p[2] + o.p[3] = Unit

C15_ScoreAndAverageInRange ==
    /\ \A k \in 1..Len(individual_scores) :
          (k <= Len(calls) /\ variant # "fixed" /\ ValidTriple(calls[k].o)) =>
              /\ individual_scores[k] = [nan |-> FALSE, n |-> calls[k].o.p[3] - calls[k].o.p[2], d |-> 1]
              /\ individual_scores[k].n >= -Unit
              /\ individual_scores[k].n <= Unit
    /\ (written /\ Len(output) = 1 /\ \A k \in 1..Len(calls) : calls[k].o.kind # "nan") =>
          /\ ~output[1]["avg_sentiment_score"].nan
          /\ output[1]["avg_sentiment_score"].n >= -Unit * output[1]["avg_sentiment_score"].d
          /\ output[1]["avg_sentiment_score"].n <= Unit * output[1]["avg_sentiment_score"].d

C15_Witness ==
    /\ written
    /\ variant = "base"
    /\ Len(calls) = 2
    /\ calls[1].o = Prob(<<0, 0, 1024>>)
    /\ calls[2].o = Prob(<<0, 0, 1024>>)
    /\ output[1]["avg_sentiment_score"] = [nan |-> FALSE, n |-> Unit, d |-> 1]

\* ---------------------------------------------------------------------------
\* C16: in every BundleResult and in every output row, a total of 0 comes
\* with an average of exactly 0.0 and three counts of 0.
C16_ZeroTotalZeroResult ==
    \A r \in AllResults :
        r["total_titles"] = 0 =>
            /\ r["avg_sentiment_score"] = [nan |-> FALSE, n |-> 0, d |-> 1]
            /\ r["positive_count"] = 0
            /\ r["negative_count"] = 0
            /\ r["neutral_count"] = 0

C16_Witness ==
    /\ written
    /\ Len(output) >= 2
    /\ "news_titles" \in DOMAIN input[1]
    /\ IsNa(input[1]["news_titles"])
    /\ output[1]["total_titles"] = 0
    /\ output[2]["total_titles"] = 1

\* ---------------------------------------------------------------------------
\* C17: processing leaves every column the input row had unchanged, in the
\* DataFrame during the run and in the written output; an output row is its
\* input row plus five added result fields and nothing else.
C17_ExistingColumnsUnchanged ==
    /\ \A k \in 1..Len(df) :
          \A c \in DOMAIN input[k] : c \in DOMAIN df[k] /\ df[k][c] = input[k][c]
    /\ written =>
          \A k \in 1..Len(output) :
              /\ DOMAIN input[k] \subseteq DOMAIN output[k]
              /\ Cardinality(DOMAIN output[k]) = Cardinality(DOMAIN input[k]) + 5
              /\ \A c \in DOMAIN input[k] : output[k][c] = input[k][c]

\* the part of C17 the code keeps: a column not named like a result field
\* is never changed, SentimentAnalyzer's script changes no column at all,
\* and an input without such a column gets exactly the five fields added
C17_OtherColumnsUnchanged ==
    /\ \A k \in 1..Len(df) :
          \A c \in DOMAIN input[k] :
              (c \notin FiveFields \/ variant = "base") =>
                  c \in DOMAIN df[k] /\ df[k][c] = input[k][c]
    /\ written =>
          \A k \in 1..Len(output) :
              /\ \A c \in DOMAIN input[k] :
                    (c \notin FiveFields \/ variant = "base") =>
                        c \in DOMAIN output[k] /\ output[k][c] = input[k][c]
              /\ (DOMAIN input[k] \cap FiveFields = {} \/ variant = "base") =>
                    Cardinality(DOMAIN output[k]) = Cardinality(DOMAIN input[k]) + 5
              /\ DOMAIN input[k] \cap FiveFields = {} =>
                    DOMAIN output[k] = DOMAIN input[k] \cup FiveFields

\* ---------------------------------------------------------------------------
\* C18: during one batch run the result of each row is computed once and
\* each row is written once: the row index never goes back, a stored result
\* is never replaced, SentimentAnalyzer holds exactly one result per row
\* passed, the output is written when every row has been passed, with one
\* output row per row of the DataFrame, and a written output never changes.
OncePerRowStep ==
    /\ i' >= i
    /\ \A k \in 1..Len(sentiment_results) :
          Len(sentiment_results') >= k /\ sentiment_results'[k] = sentiment_results[k]
    /\ (variant = "base" /\ i' >= 1) => Len(sentiment_results') = i' - 1
    /\ \A k \in 1..Len(df) : k < i => (Len(df') >= k /\ df'[k] = df[k])
    /\ (written' /\ ~written) => (i' = Len(df') + 1 /\ Len(output') = Len(df'))
    /\ written => (written' /\ output' = output)

C18_OncePerRow == [][OncePerRowStep]_vars

C18_Witness ==
    /\ written
    /\ pc = "done"
    /\ variant = "base"
    /\ Len(output) = 3
    /\ Len(sentiment_results) = 3
    /\ \A k \in 1..3 : output[k]["total_titles"] = 1
    /\ Len(calls) = 1

\* ---------------------------------------------------------------------------
\* C19: when the input dataset cannot be read the run aborts: no row is
\* processed, the External Scorer is never called, no output is written, and
\* the run ends in its error path, not in the completion path of a run that
\* succeeded.
C19_ReadFailureAborts ==
    (~readable /\ pc # "start") =>
        /\ df = <<>>
        /\ sentiment_results = <<>>
        /\ calls = <<>>
        /\ ~written
        /\ output = <<>>
        /\ pc = "read_error"

\* ---------------------------------------------------------------------------
\* C20: for every input the output of clean_text has no leading or trailing
\* whitespace and no two whitespace characters in a row, also when the
\* characters removed stood between two spaces.
C20_NoStrayWhitespace ==
    pc = "cleaned" =>
        LET t == output[1]
        IN  /\ t # <<>> => (t[1] \notin Whitespace /\ t[Len(t)] \notin Whitespace)
            /\ \A k \in 1..(Len(t) - 1) : ~(t[k] \in Whitespace /\ t[k + 1] \in Whitespace)

\* ---------------------------------------------------------------------------
\* C21: for every input the output of clean_text contains only characters of
\* the allow-list (word characters, whitespace, the Japanese ranges), and a
\* missing or empty input gives the empty string.
C21_OnlyAllowedCharacters ==
    pc = "cleaned" =>
        /\ \A k \in 1..Len(output[1]) : Allowed(output[1][k])
        /\ (IsNa(TextOf) \/ TextOf.s = <<>>) => output[1] = <<>>

\* ---------------------------------------------------------------------------
\* C22: for every probability vector over the five star classes with
\* non-negative components summing to 1, the weighted score
\* -1.0*p1 - 0.5*p2 + 0*p3 + 0.5*p4 + 1.0*p5 lies in [-1, 1], and the items
\* are classified with the fixed thresholds: positive above 0.1, negative
\* below -0.1, neutral otherwise.
ValidFive(o) ==
    /\ o.kind = "prob"
    /\ Len(o.p) = 5
    /\ \A j \in 1..5 : o.p[j] >= 0
    /\ o.p[1] + o.p[2] + o.p[3] + o.p[4] + o.p[5] = Unit

\* twice the weighted score of a five-class vector, in units of 1/Unit
TwiceWeighted(p) == -2 * p[1] - p[2] + p[4] + 2 * p[5]

C22_FiveClassWeighted ==
    variant = "fixed" =>
        /\ \A k \in 1..Len(individual_scores) :
              (k <= Len(calls) /\ ValidFive(calls[k].o)) =>
                  /\ ~individual_scores[k].nan
                  /\ 2 * individual_scores[k].n = individual_scores[k].d * TwiceWeighted(calls[k].o.p)
                  /\ TwiceWeighted(calls[k].o.p) >= -2 * Unit
                  /\ TwiceWeighted(calls[k].o.p) <= 2 * Unit
        /\ (written /\ titles # <<>> /\ Len(output) = 1
              /\ \A k \in 1..Len(calls) : ValidFive(calls[k].o)) =>
              /\ output[1]["positive_count"] =
                    Cardinality({k \in 1..Len(calls) : 10 * TwiceWeighted(calls[k].o.p) > 2 * Unit})
              /\ output[1]["negative_count"] =
                    Cardinality({k \in 1..Len(calls) : 10 * TwiceWeighted(calls[k].o.p) < -2 * Unit})
              /\ output[1]["neutral_count"] =
                    Cardinality({k \in 1..Len(calls) :
                        /\ 10 * TwiceWeighted(calls[k].o.p) <= 2 * Unit
                        /\ 10 * TwiceWeighted(calls[k].o.p) >= -2 * Unit})

C22_Witness ==
    /\ variant = "fixed"
    /\ written
    /\ Len(calls) = 3
    /\ calls[1].o = Prob(<<0, 0, 820, 204, 0>>)
    /\ calls[2].o = Prob(<<0, 0, 819, 205, 0>>)
    /\ calls[3].o = Prob(<<1024, 0, 0, 0, 0>>)
    /\ output[1]["neutral_count"] = 1
    /\ output[1]["positive_count"] = 1
    /\ output[1]["negative_count"] = 1

\* ---------------------------------------------------------------------------
\* Article fetch: url_to_text_converter.py

MaxRetries == 4
MaxUrls == 3
MaxDate == 2
MaxPerDate == 2

\* fetch_article_with_retry(url, max_retries=3)
DefaultMaxRetries == 3
\* time.sleep(2) between two attempts
RetrySleep == 2
\* the date cell of a row that pd.read_csv read as NaN
NaNDate == 0

\* fetch_bloomberg_article(url): raises, or returns the page text: a page
\* parse_article_enhanced extracts fields from, a page it raises on, or ""
FetchOutcomes == {"raise", "article", "malformed", "empty"}

\* the title / author / content / article_date of the record of a URL:
\* "fetch_failed" stands for the marker of `if not html` and of the except
\* branch of the URL loop, "parse_failed" for the marker of the except branch
\* of parse_article_enhanced
ParseArticleEnhanced(html) ==
    IF html \in {"None", "empty"} THEN "fetch_failed"
    ELSE IF html = "malformed" THEN "parse_failed"
    ELSE "article"

FetchEvent(ok) == [kind |-> "fetch", ok |-> ok, secs |-> 0]
SleepEvent(secs) == [kind |-> "sleep", ok |-> FALSE, secs |-> secs]

\* df.groupby('date'): the dates present, ascending, rows without date dropped
RECURSIVE SortedDates(_)
SortedDates(ds) ==
    IF ds = {} THEN <<>>
    ELSE LET d == CHOOSE x \in ds : \A y \in ds : x <= y
         IN  <<d>> \o SortedDates(ds \ {d})

\* group['bloomberg_url'].tolist(): the URLs of a date, in row order
RECURSIVE UrlsOfDate(_, _)
UrlsOfDate(rows, d) ==
    IF rows = <<>> THEN <<>>
    ELSE (IF Head(rows).date = d THEN <<Head(rows).bloomberg_url>> ELSE <<>>)
            \o UrlsOfDate(Tail(rows), d)

\* urls[:max_articles_per_date + 1]
TruncateOneMore(urls, n) == SubSeq(urls, 1, IF Len(urls) < n + 1 THEN Len(urls) ELSE n + 1)

\* urls[:max_articles_per_date] for max_articles_per_date >= 0
Truncate(urls, n) == SubSeq(urls, 1, IF Len(urls) < n THEN Len(urls) ELSE n)

\* date_groups with urls_to_process of every group
DateGroups(rows, n) ==
    LET ds == SortedDates({rows[k].date : k \in 1..Len(rows)} \ {NaNDate})
    IN  [g \in 1..Len(ds) |-> [date |-> ds[g], urls |-> Truncate(UrlsOfDate(rows, ds[g]), n)]]

\* one pass of `for attempt in range(max_retries)`, the fetcher doing o
\* (with the sleep also after the last attempt)
RetryStepSleepsLast(l, o) ==
    IF o # "raise"
    THEN [l EXCEPT !.events = Append(@, FetchEvent(TRUE)), !.html = o, !.returned = TRUE]
    ELSE IF l.attempt < l.max_retries - 1
         THEN [l EXCEPT !.events = @ \o <<FetchEvent(FALSE), SleepEvent(RetrySleep)>>,
                        !.attempt = @ + 1]
         ELSE [l EXCEPT !.events = @ \o <<FetchEvent(FALSE), SleepEvent(RetrySleep)>>,
                        !.html = "None", !.returned = TRUE]

\* one pass of `for attempt in range(max_retries)`, the fetcher doing o
RetryStep(l, o) ==
    IF o # "raise"
    THEN [l EXCEPT !.events = Append(@, FetchEvent(TRUE)), !.html = o, !.returned = TRUE]
    ELSE IF l.attempt < l.max_retries - 1
         THEN [l EXCEPT !.events = @ \o <<FetchEvent(FALSE), SleepEvent(RetrySleep)>>,
                        !.attempt = @ + 1]
         ELSE [l EXCEPT !.events = Append(@, FetchEvent(FALSE)),
                        !.html = "None", !.returned = TRUE]

\* fetch_article_with_retry is entered: range(max_retries) may be empty
EnterRetry(l, n) ==
    [l EXCEPT !.max_retries = n, !.attempt = 0, !.events = <<>>,
              !.html = "None", !.returned = (n <= 0)]

\* the URL the loops of process_urls_to_articles are at
CurrentUrl(l) == l.groups[l.g].urls[l.u]

\* the loops move on to the next URL to fetch, or end
RECURSIVE NextUrl(_)
NextUrl(l) ==
    IF l.g > Len(l.groups) THEN [l EXCEPT !.finished = TRUE, !.saved = (l.results # <<>>)]
    ELSE IF l.u > Len(l.groups[l.g].urls) THEN NextUrl([l EXCEPT !.g = @ + 1, !.u = 1])
    ELSE EnterRetry(l, DefaultMaxRetries)

\* results.append({...}) for the URL just fetched and parsed
AppendRecord(l) ==
    [l EXCEPT !.results = Append(@, [date |-> l.groups[l.g].date,
                                      bloomberg_url |-> CurrentUrl(l),
                                      title |-> ParseArticleEnhanced(l.html)]),
              !.fetched = Append(@, l.html),
              !.u = @ + 1]

ArticleLocals ==
    [proc |-> "none", max_retries |-> 0, attempt |-> 0, events |-> <<>>, html |-> "None",
     returned |-> FALSE, rows |-> <<>>, max_articles_per_date |-> 0, groups |-> <<>>,
     g |-> 1, u |-> 1, results |-> <<>>, fetched |-> <<>>, finished |-> FALSE,
     saved |-> FALSE]

\* the rows of bloomberg_urls.csv: a date (or none) and a URL, named by its row
UrlRows == UNION {[1..n -> 0..MaxDate] : n \in 0..MaxUrls}
MakeUrlRows(dates) == [k \in 1..Len(dates) |-> [date |-> dates[k], bloomberg_url |-> k]]

\* the 13 variables of the sentiment run, unused by the URL-side functions
SentimentIdle ==
    /\ variant = "base"
    /\ test_mode = FALSE
    /\ readable = TRUE
    /\ input = <<>>
    /\ df = <<>>
    /\ i = 0
    /\ titles = <<>>
    /\ individual_scores = <<>>
    /\ calls = <<>>
    /\ sentiment_results = <<>>
    /\ written = FALSE
    /\ output = <<>>

SentimentUnchanged ==
    UNCHANGED <<variant, test_mode, readable, input, df, i, titles, individual_scores,
                calls, sentiment_results, written, output>>

ArticleInit ==
    /\ SentimentIdle
    /\ pc = "call"
    /\ \/ \E n \in 0..MaxRetries :
            locals = [ArticleLocals EXCEPT !.proc = "fetch_article_with_retry", !.max_retries = n]
       \/ \E dates \in UrlRows, n \in 0..MaxPerDate :
            locals = [ArticleLocals EXCEPT !.proc = "process_urls_to_articles",
                                           !.rows = MakeUrlRows(dates),
                                           !.max_articles_per_date = n]

\* where the run is once the function at hand has gone as far as it can
\* without the fetcher
ArticlePc(l) ==
    IF l.proc = "fetch_article_with_retry"
    THEN (IF l.returned THEN "returned" ELSE "fetch")
    ELSE (IF l.finished THEN "done" ELSE "fetch")

\* the function is called and runs up to its first fetch
CallArticle ==
    /\ pc = "call"
    /\ LET l == IF locals.proc = "fetch_article_with_retry"
                THEN EnterRetry(locals, locals.max_retries)
                ELSE NextUrl([locals EXCEPT
                        !.groups = DateGroups(locals.rows, locals.max_articles_per_date)])
       IN  locals' = l /\ pc' = ArticlePc(l)
    /\ SentimentUnchanged

\* one call of fetch_bloomberg_article and what follows up to the next one
FetchAttempt(o) ==
    /\ pc = "fetch"
    /\ LET r == RetryStep(locals, o)
           l == IF locals.proc = "fetch_article_with_retry" \/ ~r.returned THEN r
                ELSE NextUrl(AppendRecord(r))
       IN  locals' = l /\ pc' = ArticlePc(l)
    /\ SentimentUnchanged

ArticleNext == CallArticle \/ \E o \in FetchOutcomes : FetchAttempt(o)

ArticleSpec == ArticleInit /\ [][ArticleNext]_vars

\* ---------------------------------------------------------------------------
\* C23: fetch_article_with_retry(url, max_retries) calls the fetcher at most
\* max_retries times, stops at the first attempt that succeeds and returns
\* its HTML, returns None exactly when all max_retries attempts failed, and
\* waits 2 seconds after every failed attempt but the last.
FetchesMade == {k \in 1..Len(locals.events) : locals.events[k].kind = "fetch"}
FetchesFailed == {k \in FetchesMade : ~locals.events[k].ok}

C23_RetryUntilSuccess ==
    pc # "call" =>
        LET ev == locals.events
        IN  /\ Cardinality(FetchesMade) <= locals.max_retries
            /\ \A k \in 1..Len(ev) :
                  /\ (ev[k].kind = "fetch" /\ ev[k].ok) =>
                        k = Len(ev) /\ locals.returned /\ locals.html # "None"
                  /\ (ev[k].kind = "fetch" /\ ~ev[k].ok /\ k < Len(ev)) =>
                        ev[k + 1].kind = "sleep" /\ ev[k + 1].secs = RetrySleep
                  /\ (ev[k].kind = "fetch" /\ ~ev[k].ok /\ k = Len(ev)) =>
                        /\ locals.returned
                        /\ locals.html = "None"
                        /\ Cardinality(FetchesMade) = locals.max_retries
                  /\ ev[k].kind = "sleep" =>
                        /\ k > 1
                        /\ ev[k - 1].kind = "fetch" /\ ~ev[k - 1].ok
                        /\ k < Len(ev) => ev[k + 1].kind = "fetch"
                        /\ k = Len(ev) => ~locals.returned
            /\ locals.returned =>
                  (locals.html = "None" <=>
                      (FetchesFailed = FetchesMade
                         /\ Cardinality(FetchesMade) = locals.max_retries))

C23_Witness ==
    /\ pc = "returned"
    /\ locals.proc = "fetch_article_with_retry"
    /\ locals.max_retries = 3
    /\ Len(locals.events) = 5
    /\ locals.events[4].kind = "sleep"
    /\ locals.events[5].ok
    /\ locals.html = "article"

\* ---------------------------------------------------------------------------
\* the rows process_urls_to_articles handles: they have a date and are among
\* the first max_articles_per_date rows of that date
ProcessedRows ==
    {k \in 1..Len(locals.rows) :
        /\ locals.rows[k].date # NaNDate
        /\ Cardinality({j \in 1..k : locals.rows[j].date = locals.rows[k].date})
              <= locals.max_articles_per_date}

\* the position of a handled row among the handled rows, in input order
InputPos(k) == Cardinality({j \in ProcessedRows : j <= k})

\* its position when the dates come in ascending order and the rows of one
\* date in input order
GroupedPos(k) ==
    Cardinality({j \in ProcessedRows :
        \/ locals.rows[j].date < locals.rows[k].date
        \/ locals.rows[j].date = locals.rows[k].date /\ j <= k})

\* C24 as stated: one record per handled URL in input order, holding the
\* one failure marker when the fetch or the parse failed.
C24_Original ==
    (locals.proc = "process_urls_to_articles" /\ pc = "done") =>
        /\ Len(locals.results) = Cardinality(ProcessedRows)
        /\ \A k \in ProcessedRows :
              /\ locals.results[InputPos(k)].bloomberg_url = locals.rows[k].bloomberg_url
              /\ locals.results[InputPos(k)].date = locals.rows[k].date
              /\ locals.results[InputPos(k)].title =
                    IF locals.fetched[InputPos(k)] = "article" THEN "article" ELSE "fetch_failed"

\* C24 (amended): one record per handled URL, the dates in ascending order
\* (groupby) and the URLs of a date in input order; per date the first
\* min(number of URLs, max_articles_per_date) URLs are handled; a URL whose
\* fetch failed or returned an empty page gets the fetch-failure marker, a
\* URL whose parse raised gets the parse-failure marker; no failure stops
\* the run before all handled URLs have their record.
C24_OneRecordPerUrl ==
    (locals.proc = "process_urls_to_articles" /\ pc # "call") =>
        /\ pc \in {"fetch", "done"}
        /\ Len(locals.results) <= Cardinality(ProcessedRows)
        /\ pc = "done" => Len(locals.results) = Cardinality(ProcessedRows)
        /\ Len(locals.fetched) = Len(locals.results)
        /\ \A d \in 1..MaxDate :
              pc = "done" =>
                  LET have == Cardinality({k \in 1..Len(locals.rows) : locals.rows[k].date = d})
                      made == Cardinality({r \in 1..Len(locals.results) : locals.results[r].date = d})
                  IN  made = IF have < locals.max_articles_per_date
                             THEN have ELSE locals.max_articles_per_date
        /\ \A k \in ProcessedRows :
              GroupedPos(k) <= Len(locals.results) =>
                  /\ locals.results[GroupedPos(k)].bloomberg_url = locals.rows[k].bloomberg_url
                  /\ locals.results[GroupedPos(k)].date = locals.rows[k].date
                  /\ locals.results[GroupedPos(k)].title =
                        CASE locals.fetched[GroupedPos(k)] = "article" -> "article"
                          [] locals.fetched[GroupedPos(k)] = "malformed" -> "parse_failed"
                          [] OTHER -> "fetch_failed"

C24_Witness ==
    /\ pc = "done"
    /\ locals.proc = "process_urls_to_articles"
    /\ Len(locals.rows) = 3
    /\ locals.rows[1].date = 2
    /\ locals.max_articles_per_date = 1
    /\ Len(locals.results) = 2
    /\ locals.results[1].bloomberg_url = 2
    /\ locals.results[1].title = "parse_failed"
    /\ locals.results[2].title = "fetch_failed"
    /\ locals.fetched[2] = "None"

\* ---------------------------------------------------------------------------
\* URL discovery by article-id patterns: bloomberg_scraper_class.py
\* (the URLs are random strings; a list of URLs is modelled by its length)

MaxArticles == 2
MaxAttemptsArg == 11

\* the patterns of _get_bloomberg_id_patterns
PatternCount == 7
\* max_attempts = min(max_attempts * 10, 100)
AttemptFactor == 10
AttemptCap == 100

\* one pass of the while loop of _try_pattern: the generated URL exists, does
\* not exist, or pattern_func / _check_url_exists raises
CheckOutcomes == {"exists", "missing", "raise"}

\* the rebinding of max_attempts, without the cap of 100
TryCapUncapped(n) == n * AttemptFactor

\* the rebinding of max_attempts at the top of _try_pattern
TryCap(n) == IF n * AttemptFactor < AttemptCap THEN n * AttemptFactor ELSE AttemptCap

\* _try_pattern(date_str, pattern_func, n) is entered
EnterTry(l, n) ==
    [l EXCEPT !.arg = n, !.max_attempts = TryCap(n), !.attempts = 0, !.valid_urls = 0]

\* while len(valid_urls) < max_attempts and attempts < max_attempts
TryLoops(l) == l.valid_urls < l.max_attempts /\ l.attempts < l.max_attempts

\* the body of the while loop
TryStep(l, o) ==
    [l EXCEPT !.attempts = @ + 1, !.valid_urls = IF o = "exists" THEN @ + 1 ELSE @]

\* article_urls.extend(pattern_urls) and the next pattern of the for loop
ExtendUrls(l) == [l EXCEPT !.article_urls = @ + l.valid_urls, !.pattern = @ + 1]

\* the for loop of _generate_urls_by_pattern up to the next URL check
RECURSIVE NextPattern(_)
NextPattern(l) ==
    IF l.pattern > PatternCount \/ l.article_urls >= l.max_articles
    THEN [l EXCEPT !.returned = TRUE]
    ELSE LET t == EnterTry(l, l.max_articles - l.article_urls)
         IN  IF TryLoops(t) THEN t ELSE NextPattern(ExtendUrls(t))

\* _try_pattern returns valid_urls to its caller
ReturnTry(l) ==
    IF l.proc = "_try_pattern" THEN [l EXCEPT !.returned = TRUE]
    ELSE NextPattern(ExtendUrls(l))

ScraperLocals ==
    [proc |-> "none", max_articles |-> 0, article_urls |-> 0, pattern |-> 1, arg |-> 0,
     max_attempts |-> 0, attempts |-> 0, valid_urls |-> 0, returned |-> FALSE]

ScraperInit ==
    /\ SentimentIdle
    /\ pc = "call"
    /\ \/ \E n \in 1..MaxAttemptsArg :
            locals = [ScraperLocals EXCEPT !.proc = "_try_pattern", !.arg = n]
       \/ \E n \in 1..MaxArticles :
            locals = [ScraperLocals EXCEPT !.proc = "get_news_list_by_date", !.max_articles = n]

ScraperPc(l) == IF l.returned THEN "returned" ELSE "try"

\* the function is called and runs up to its first URL check
CallScraper ==
    /\ pc = "call"
    /\ LET l == IF locals.proc = "_try_pattern"
                THEN (LET t == EnterTry(locals, locals.arg)
                      IN  IF TryLoops(t) THEN t ELSE ReturnTry(t))
                ELSE NextPattern(locals)
       IN  locals' = l /\ pc' = ScraperPc(l)
    /\ SentimentUnchanged

\* one pass of the while loop and what follows up to the next pass
TryAttempt(o) ==
    /\ pc = "try"
    /\ LET t == TryStep(locals, o)
           l == IF TryLoops(t) THEN t ELSE ReturnTry(t)
       IN  locals' = l /\ pc' = ScraperPc(l)
    /\ SentimentUnchanged

ScraperNext == CallScraper \/ \E o \in CheckOutcomes : TryAttempt(o)

ScraperSpec == ScraperInit /\ [][ScraperNext]_vars

\* every pass of the loop ends: the HEAD/GET requests carry a timeout
ScraperLive == ScraperSpec /\ WF_vars(ScraperNext)

\* ---------------------------------------------------------------------------
\* C25: get_news_list_by_date(date_str, max_articles) returns at most
\* max_articles URLs, for every max_articles >= 1 and every pattern of
\* URL-existence responses.
C25_AtMostMaxArticles ==
    (locals.proc = "get_news_list_by_date" /\ pc = "returned") =>
        locals.article_urls <= locals.max_articles

\* ---------------------------------------------------------------------------
\* C26: _try_pattern always terminates: it makes at most
\* min(10 * max_attempts, 100) URL-generation attempts, whatever the attempts
\* do (every one may raise, every URL check may fail), and then returns.
C26_TryPatternTerminates ==
    /\ [](/\ locals.attempts <= AttemptFactor * locals.arg
          /\ locals.attempts <= AttemptCap
          /\ locals.valid_urls <= locals.attempts
          /\ pc = "try" => (locals.attempts < AttemptFactor * locals.arg
                              /\ locals.attempts < AttemptCap))
    /\ <>(pc = "returned")

C26_Witness ==
    /\ pc = "returned"
    /\ locals.proc = "_try_pattern"
    /\ locals.arg = MaxAttemptsArg
    /\ locals.attempts = AttemptCap
    /\ locals.valid_urls = 0

\* ---------------------------------------------------------------------------
\* URL discovery by sitemap: csv_url_extractor.py

MaxSitemaps == 2
MaxEntries == 2
MaxUrlsArg == 2

\* a <url> entry of a sitemap: its lastmod starts with the target date, is
\* another date, or is absent
EntryKinds == {"match", "other", "nolastmod"}

\* a <loc> of the sitemap index: its name is not one the function processes
\* (not of the target year and month, not recent, not news), or it is and the
\* sitemap has these entries
NotSelected == [selected |-> FALSE, entries |-> <<>>]
Sitemaps ==
    {NotSelected} \cup
    {[selected |-> TRUE, entries |-> es] : es \in UNION {[1..n -> EntryKinds] : n \in 0..MaxEntries}}

\* `if lastmod and lastmod.text.startswith(target_date_str)`
LastmodMatches(entry) == entry = "match"

\* the loop over the entries of sitemap s from entry e on, without the break
RECURSIVE ScanEntriesNoBreak(_, _, _, _, _)
ScanEntriesNoBreak(urls, s, entries, e, max_urls) ==
    IF e > Len(entries) THEN urls
    ELSE IF LastmodMatches(entries[e])
         THEN ScanEntriesNoBreak(Append(urls, [sitemap |-> s, entry |-> e]), s, entries, e + 1, max_urls)
         ELSE ScanEntriesNoBreak(urls, s, entries, e + 1, max_urls)

\* the loop over the entries of sitemap s from entry e on
RECURSIVE ScanEntries(_, _, _, _, _)
ScanEntries(urls, s, entries, e, max_urls) ==
    IF e > Len(entries) THEN urls
    ELSE IF LastmodMatches(entries[e])
         THEN (IF Len(urls) + 1 >= max_urls
               THEN Append(urls, [sitemap |-> s, entry |-> e])
               ELSE ScanEntries(Append(urls, [sitemap |-> s, entry |-> e]), s, entries, e + 1, max_urls))
         ELSE ScanEntries(urls, s, entries, e + 1, max_urls)

\* the loop over the <loc> of the index goes on to the next sitemap it fetches
RECURSIVE NextSitemap(_)
NextSitemap(l) ==
    IF l.s > Len(l.sitemaps) THEN [l EXCEPT !.returned = TRUE]
    ELSE IF l.sitemaps[l.s].selected THEN l
    ELSE NextSitemap([l EXCEPT !.s = @ + 1])

\* a fetched sitemap is scanned; the loop over the index ends when the list
\* is full
AfterSitemap(l) ==
    LET found == ScanEntries(l.urls, l.s, l.sitemaps[l.s].entries, 1, l.max_urls)
    IN  IF Len(found) >= l.max_urls
        THEN [l EXCEPT !.urls = found, !.returned = TRUE]
        ELSE NextSitemap([l EXCEPT !.urls = found, !.s = @ + 1])

SitemapLocals ==
    [proc |-> "get_bloomberg_urls_for_date", max_urls |-> 0, sitemaps |-> <<>>, s |-> 1,
     urls |-> <<>>, returned |-> FALSE]

SitemapInit ==
    /\ SentimentIdle
    /\ pc = "index"
    /\ \E n \in 1..MaxUrlsArg, k \in 0..MaxSitemaps :
          \E sm \in [1..k -> Sitemaps] :
              locals = [SitemapLocals EXCEPT !.max_urls = n, !.sitemaps = sm]

SitemapPc(l) == IF l.returned THEN "returned" ELSE "sitemap"

\* index_soup = get_soup(sitemap_index_url)
FetchIndex(ok) ==
    /\ pc = "index"
    /\ LET l == IF ok THEN NextSitemap(locals) ELSE [locals EXCEPT !.returned = TRUE]
       IN  locals' = l /\ pc' = SitemapPc(l)
    /\ SentimentUnchanged

\* article_soup = get_soup(sitemap_url) and what follows up to the next fetch
FetchSitemap(ok) ==
    /\ pc = "sitemap"
    /\ LET l == IF ok THEN AfterSitemap(locals)
                ELSE NextSitemap([locals EXCEPT !.s = @ + 1])
       IN  locals' = l /\ pc' = SitemapPc(l)
    /\ SentimentUnchanged

SitemapNext == \E ok \in BOOLEAN : FetchIndex(ok) \/ FetchSitemap(ok)

SitemapSpec == SitemapInit /\ [][SitemapNext]_vars

\* ---------------------------------------------------------------------------
\* C27: get_bloomberg_urls_for_date(target_date_str, max_urls) returns at most
\* max_urls URLs for every max_urls >= 1, whatever the sitemaps hold, and
\* every URL it returns is the URL of an entry whose lastmod starts with the
\* target date.
C27_AtMostMaxUrls ==
    /\ Len(locals.urls) <= locals.max_urls
    /\ \A k \in 1..Len(locals.urls) :
          LET u == locals.urls[k]
          IN  /\ u.sitemap \in 1..Len(locals.sitemaps)
              /\ locals.sitemaps[u.sitemap].selected
              /\ u.entry \in 1..Len(locals.sitemaps[u.sitemap].entries)
              /\ locals.sitemaps[u.sitemap].entries[u.entry] = "match"

C27_Witness ==
    /\ pc = "returned"
    /\ locals.max_urls = 2
    /\ Len(locals.sitemaps) = 2
    /\ locals.sitemaps[1].entries = <<"match", "other">>
    /\ locals.sitemaps[2].entries = <<"match", "match">>
    /\ Len(locals.urls) = 2
    /\ locals.urls[2] = [sitemap |-> 2, entry |-> 1]

\* ---------------------------------------------------------------------------
\* Title merge: add_titles_to_original_csv of url_to_text_converter.py,
\* followed by the item split of SentimentAnalyzer.analyze_news_titles

MaxArticleRows == 2

\* the placeholder of a date without article: four word characters
NoArticle == <<"n", "o", "n", "e">>

\* ' | '
Separator == <<" ", Delimiter, " ">>

\* the title cells of bloomberg_articles.csv as pd.read_csv returns them: an
\* empty field is NaN, a number is a number, anything else is text
TitleCells ==
    {NaNCell, NumCell} \cup
    {StrCell(s) : s \in {<<"a">>, <<" ", "a">>, <<"a", " ", "a">>, <<" ">>, <<"|">>,
                         <<"a", "|", "a">>}}

ArticleRows ==
    UNION {[1..n -> [date : 1..MaxDate, title : TitleCells]] : n \in 0..MaxArticleRows}

\* date_titles[d]: the titles of the articles of date d, in row order
RECURSIVE DateTitles(_, _)
DateTitles(articles, d) ==
    IF articles = <<>> THEN <<>>
    ELSE (IF Head(articles).date = d THEN <<Head(articles).title>> ELSE <<>>)
            \o DateTitles(Tail(articles), d)

\* str.join with a blank as separator
RECURSIVE JoinWithBlank(_)
JoinWithBlank(cells) ==
    IF Len(cells) = 1 THEN cells[1].s
    ELSE cells[1].s \o <<" ">> \o JoinWithBlank(Tail(cells))

\* ' | '.join(titles) for a non-empty list of strings
RECURSIVE Join(_)
Join(cells) ==
    IF Len(cells) = 1 THEN cells[1].s
    ELSE cells[1].s \o Separator \o Join(Tail(cells))

\* ' | '.join raises TypeError on a list holding a float or an int
JoinRaises(cells) == \E k \in 1..Len(cells) : cells[k].t # "str"

\* the list the lambda joins for date x: date_titles.get(x, [placeholder])
TitlesFor(articles, d) ==
    IF DateTitles(articles, d) = <<>> THEN <<StrCell(NoArticle)>> ELSE DateTitles(articles, d)

\* original_df with its news_titles column
MergedRows(original, articles) ==
    [k \in 1..Len(original) |->
        [date |-> original[k], news_titles |-> StrCell(Join(TitlesFor(articles, original[k])))]]

\* the item list analyze_news_titles builds for a bundle cell
ItemsOfBundle(cell) ==
    IF IsEmptyBundle("base", cell) THEN <<>> ELSE SplitTitles("base", cell.s)

MergeLocals ==
    [proc |-> "add_titles_to_original_csv", original |-> <<>>, articles |-> <<>>,
     rows |-> <<>>, saved |-> FALSE, items |-> <<>>]

\* data.csv has one row per date; the articles file has any rows
MergeInit ==
    /\ SentimentIdle
    /\ pc = "merge"
    /\ \E n \in 0..MaxDate, articles \in ArticleRows :
          locals = [MergeLocals EXCEPT !.original = [k \in 1..n |-> k], !.articles = articles]

\* add_titles_to_original_csv: the map raises on the first list that cannot
\* be joined and the except branch prints; otherwise the file is saved
MergeTitles ==
    /\ pc = "merge"
    /\ IF \E k \in 1..Len(locals.original) :
              JoinRaises(TitlesFor(locals.articles, locals.original[k]))
       THEN pc' = "merge_error" /\ locals' = locals
       ELSE /\ pc' = "merged"
            /\ locals' = [locals EXCEPT !.rows = MergedRows(locals.original, locals.articles),
                                        !.saved = TRUE]
    /\ SentimentUnchanged

\* analyze_news_titles on the bundle of every merged row
SplitMerged ==
    /\ pc = "merged"
    /\ pc' = "analyzed"
    /\ locals' = [locals EXCEPT !.items =
                     [k \in 1..Len(locals.rows) |-> ItemsOfBundle(locals.rows[k].news_titles)]]
    /\ SentimentUnchanged

MergeNext == MergeTitles \/ SplitMerged

MergeSpec == MergeInit /\ [][MergeNext]_vars

\* ---------------------------------------------------------------------------
\* C28: when the titles t1..tn of a date are joined with ' | ' and the bundle
\* is split on '|', and no title contains '|' or is empty or whitespace
\* only, the splitter yields exactly n items, the j-th being the cleaned
\* title tj, so total_titles = n.
PlainTitle(cell) ==
    /\ cell.t = "str"
    /\ \A j \in 1..Len(cell.s) : cell.s[j] # Delimiter
    /\ \E j \in 1..Len(cell.s) : cell.s[j] \notin Whitespace

C28_MergeSplitRoundTrip ==
    pc = "analyzed" =>
        \A k \in 1..Len(locals.rows) :
            LET ts == DateTitles(locals.articles, locals.rows[k].date)
            IN  (ts # <<>> /\ \A j \in 1..Len(ts) : PlainTitle(ts[j])) =>
                    /\ Len(locals.items[k]) = Len(ts)
                    /\ \A j \in 1..Len(ts) :
                          locals.items[k][j] = CleanText(ts[j])

C28_Witness ==
    /\ pc = "analyzed"
    /\ Len(locals.rows) = 2
    /\ Len(locals.articles) = 2
    /\ locals.articles[1] = [date |-> 2, title |-> StrCell(<<" ", "a">>)]
    /\ locals.articles[2] = [date |-> 2, title |-> StrCell(<<"a", " ", "a">>)]
    /\ locals.items[2] = << <<"a">>, <<"a", " ", "a">> >>

\* ---------------------------------------------------------------------------
\* C29: add_titles_to_original_csv never produces an empty or missing
\* bundle: the merged file is written, every row of the original dataset has
\* a non-empty bundle, and the splitter yields at least one item for every
\* row.
C29_BundleNeverEmpty ==
    /\ pc # "merge_error"
    /\ pc \in {"merged", "analyzed"} =>
          /\ locals.saved
          /\ Len(locals.rows) = Len(locals.original)
          /\ \A k \in 1..Len(locals.rows) :
                ~IsEmptyBundle("base", locals.rows[k].news_titles)
    /\ pc = "analyzed" =>
          \A k \in 1..Len(locals.rows) : Len(locals.items[k]) >= 1

\* the part of C29 the code keeps: a written row always has a non-empty
\* bundle string, and a date without article has the placeholder as its
\* single item
C29_PlaceholderRows ==
    /\ pc \in {"merged", "analyzed"} =>
          \A k \in 1..Len(locals.rows) :
              /\ ~IsEmptyBundle("base", locals.rows[k].news_titles)
              /\ DateTitles(locals.articles, locals.rows[k].date) = <<>> =>
                    locals.rows[k].news_titles = StrCell(NoArticle)
    /\ pc = "analyzed" =>
          \A k \in 1..Len(locals.rows) :
              DateTitles(locals.articles, locals.rows[k].date) = <<>> =>
                  locals.items[k] = <<NoArticle>>

\* ---------------------------------------------------------------------------
\* C30: the scoring functions that wrap the three-class model agree: on the
\* same probability vector SentimentAnalyzer.get_sentiment_score,
\* CorrectSentimentAnalyzer.get_sentiment_score, BERT_main.get_sentiment_score
\* and bert_test's analyze_sentiment return the same signed score, taking
\* the same vector positions as positive and negative.
C30_VariantsAgree ==
    (/\ pc = "returned"
     /\ variant \in ThreeClassFns
     /\ calls # <<>>
     /\ calls[1].o.kind = "prob") =>
        \A fn \in ThreeClassFns : individual_scores[1] = SignedScore(fn, calls[1].o.p)

\* the three functions other than bert_test's do agree
C30_AgreeExceptBertTest ==
    (/\ pc = "returned"
     /\ variant \in ThreeClassFns \ {"bert_test"}
     /\ calls # <<>>
     /\ calls[1].o.kind = "prob") =>
        \A fn \in ThreeClassFns \ {"bert_test"} :
            individual_scores[1] = SignedScore(fn, calls[1].o.p)

====
